---- MODULE Spec2Model ----
(***************************************************************************)
(* Model of kvm-live-storage-migrate.py: the live storage migration of a   *)
(* libvirt domain.  One run of the script is one pass through main(); the  *)
(* hypervisor (libvirt/qemu) keeps the domain definition and the block     *)
(* copy jobs between runs, /tmp keeps the backup file.                     *)
(*                                                                         *)
(* Python strings that the code parses (file paths, volume names) are      *)
(* sequences of one-character strings.                                     *)
(***************************************************************************)
EXTENDS Integers, Sequences, FiniteSets, TLC

(***************************************************************************)
(* Bounds of the model.                                                    *)
(***************************************************************************)
\* Number of runs of the script in one behaviour.
MaxRuns == 3
\* The `end' counter the hypervisor reports for a block copy job when the
\* job starts.
MaxEnd == 2
\* How far the hypervisor may raise the `end' of a job while it copies.
MaxGrow == 1
\* Longest path string drawn as an input of the partition specification.
MaxPathLen == 3

(***************************************************************************)
(* Optional values: argparse leaves an option that was not given at None.  *)
(***************************************************************************)
None == [isNone |-> TRUE, val |-> <<>>]
Some(v) == [isNone |-> FALSE, val |-> v]

(***************************************************************************)
(* pathlib.PurePosixPath, as far as the script uses it: construction from  *)
(* a string, ==, .parent and .name.                                        *)
(***************************************************************************)
SEP == "/"

\* Number of leading separators of s.
RECURSIVE LeadingSeps(_)
LeadingSeps(s) ==
    IF s # <<>> /\ Head(s) = SEP THEN 1 + LeadingSeps(Tail(s)) ELSE 0

\* posixpath splitroot: exactly two leading separators are kept as the
\* root "//", one or three and more collapse to "/".
SplitRoot(s) ==
    LET n == LeadingSeps(s)
    IN  IF n = 0 THEN <<>>
        ELSE IF n = 2 THEN <<SEP, SEP>>
        ELSE <<SEP>>

\* str.split(sep): the segments between separators, empty ones included.
RECURSIVE SplitSep(_, _)
SplitSep(s, cur) ==
    IF s = <<>> THEN <<cur>>
    ELSE IF Head(s) = SEP THEN <<cur>> \o SplitSep(Tail(s), <<>>)
    ELSE SplitSep(Tail(s), Append(cur, Head(s)))

\* PurePosixPath(s): the root and the segments that are neither empty nor ".".
PurePosixPath(s) ==
    [root  |-> SplitRoot(s),
     parts |-> SelectSeq(SplitSep(s, <<>>), LAMBDA x : x # <<>> /\ x # <<".">>)]

\* PurePosixPath.parent: the path without its last segment; a path with no
\* segment is its own parent.
Parent(p) ==
    IF p.parts = <<>> THEN p
    ELSE [root |-> p.root, parts |-> SubSeq(p.parts, 1, Len(p.parts) - 1)]

\* PurePosixPath.name: the last segment, or the empty string.
Name(p) == IF p.parts = <<>> THEN <<>> ELSE p.parts[Len(p.parts)]

(***************************************************************************)
(* The domain description, as far as the script reads it: for each disk    *)
(* its target dev and its <source>, either file='...' or pool=/volume=.    *)
(* A disk entry also records what it lacks:                                *)
(*   target  "dev"      <target dev='...'/>                                *)
(*           "nodev"    a <target> without the dev attribute               *)
(*           "missing"  no <target> element                                *)
(*   kind    "file", "pool", "none" (a <source> with neither attribute),   *)
(*           "nosource" (no <source> element)                              *)
(***************************************************************************)
Devices == {"vda", "vdb", "vdc"}
\* Document order of the <disk> elements: the iteration order of the dicts.
DevOrder == <<"vda", "vdb", "vdc">>

FileSource(f) ==
    [kind |-> "file", file |-> f, pool |-> <<>>, volume |-> <<>>, target |-> "dev"]
PoolSource(p, v) ==
    [kind |-> "pool", file |-> <<>>, pool |-> p, volume |-> v, target |-> "dev"]

\* target.get("dev") of a <target> without the attribute: the dict key None.
NoneKey == "None"

\* The keys of dict d in iteration (insertion) order.  Only the last disk
\* of a description may lack its dev, so the key None comes last.
KeysInOrder(d) == SelectSeq(DevOrder \o <<NoneKey>>, LAMBDA k : k \in DOMAIN d)

\* The elements of a sequence.
Range(s) == {s[k] : k \in DOMAIN s}

(***************************************************************************)
(* class DomainVolumeDesc: a field that was never assigned is Unset.       *)
(***************************************************************************)
UnsetPath == [root |-> <<"?">>, parts |-> <<>>]

FileDesc(f) ==
    [vol_type |-> "file", vol_path |-> Parent(PurePosixPath(f)),
     vol_name |-> Name(PurePosixPath(f)), vol_pool |-> <<>>]
PoolDesc(p, v) ==
    [vol_type |-> "pool", vol_path |-> UnsetPath, vol_name |-> v, vol_pool |-> p]

\* Neither branch of lines 106-114 ran: no field of the descriptor is set.
UnsetDesc ==
    [vol_type |-> "unset", vol_path |-> UnsetPath, vol_name |-> <<>>, vol_pool |-> <<>>]

\* Lines 103-104 and 106: disk.find("target") or disk.find("source") is
\* None, and .get on it raises AttributeError.
GetVolumesRaises(xml) ==
    \E d \in DOMAIN xml : xml[d].target = "missing" \/ xml[d].kind = "nosource"

\* Line 103: the key of a disk entry.
KeyOf(xml, d) == IF xml[d].target = "dev" THEN d ELSE NoneKey
EntryOf(xml, k) == CHOOSE d \in DOMAIN xml : KeyOf(xml, d) = k

\* getVolumes: one descriptor per disk of the description.
getVolumes(xml) ==
    [k \in {KeyOf(xml, d) : d \in DOMAIN xml} |->
        LET src == xml[EntryOf(xml, k)]
        IN  IF src.kind = "file" THEN FileDesc(src.file)
            ELSE IF src.kind = "pool" THEN PoolDesc(src.pool, src.volume)
            ELSE UnsetDesc]

(***************************************************************************)
(* The destination test `filepath is None == pool is None'.  Python chains *)
(* the comparisons: (filepath is None) and (None == pool) and              *)
(* (pool is None).                                                         *)
(***************************************************************************)
BadDestination(pool, filepath) ==
    filepath.isNone /\ (None = pool) /\ pool.isNone

(***************************************************************************)
(* removeVolumesAlreadyMigrated                                            *)
(***************************************************************************)
\* Lines 127 and 130 read vol_type of every descriptor: AttributeError on
\* one that has none.
PartitionRaises(volumes) == \E k \in DOMAIN volumes : volumes[k].vol_type = "unset"

\* The test of the loop body: is this volume at the destination?
AlreadyMigrated(desc, pool, filepath) ==
    IF ~filepath.isNone
    THEN desc.vol_type = "file" /\ desc.vol_path = PurePosixPath(filepath.val)
    ELSE desc.vol_type = "pool" /\ desc.vol_pool = pool.val

devs_to_remove(volumes, pool, filepath) ==
    {d \in DOMAIN volumes : AlreadyMigrated(volumes[d], pool, filepath)}

\* A dict restricted to some of its keys.
Restrict(d, keys) == [k \in keys |-> d[k]]

\* The dict that stays in place of the mutated argument after a pop() that
\* leaves the volume in.
RemainingKeepAll(volumes, pool, filepath) == volumes

\* The mutated argument `volumes' after the call.
Remaining(volumes, pool, filepath) ==
    Restrict(volumes, DOMAIN volumes \ devs_to_remove(volumes, pool, filepath))

\* The returned dict migrated_volumes.
removeVolumesAlreadyMigrated(volumes, pool, filepath) ==
    Restrict(volumes, devs_to_remove(volumes, pool, filepath))

(***************************************************************************)
(* getDestinationXML: the <disk> element handed to blockCopy, as the       *)
(* source the hypervisor reads from it.                                    *)
(***************************************************************************)
DestinationRaises ==
    [kind |-> "raise", file |-> <<>>, pool |-> <<>>, volume |-> <<>>, target |-> "dev"]
getDestinationXML(desc, pool, filepath) ==
    IF BadDestination(pool, filepath)
    THEN \* lines 140-141
         DestinationRaises
    ELSE IF desc.vol_type = "unset"
    THEN \* lines 149 and 151: the descriptor has no attribute vol_name
         DestinationRaises
    ELSE IF ~filepath.isNone
    THEN FileSource(filepath.val \o <<SEP>> \o desc.vol_name)
    ELSE PoolSource(pool.val, desc.vol_name)

(***************************************************************************)
(* Progress of one poll: 100 * cur // end.                                 *)
(***************************************************************************)
\* The percentage with the division taken first.
ProgressDivFirst(cur, end) == 100 * (cur \div end)

Progress(cur, end) == (100 * cur) \div end

(***************************************************************************)
(* State.                                                                  *)
(*   The world, which outlives a run of the script:                        *)
(*     args        ARGS.pool and ARGS.filepath (the same in every run)     *)
(*     disks       the live definition of the running domain               *)
(*     persistent  the persistent definition, if the domain has one        *)
(*     jobs        the block copy job of each disk, as blockJobInfo sees it*)
(*     backup      /tmp/<domain>_backup.xml                                *)
(*                 (written: the file exists; disks: what it holds, empty  *)
(*                 between the open and the write of lines 81-82)          *)
(*   One run of main():                                                    *)
(*     run, pc, connected, xml, volumes, migrated_volumes,                 *)
(*     devs_with_ongoing_jobs, target_devs, resumed, devs_complete, i,     *)
(*     reported (the percentage last printed for each device),             *)
(*     queried (the device whose blockJobInfo the last loop body of        *)
(*     waitForAllBlockCopy requested, "" if it requested none),            *)
(*     calls (the mutating requests this run has issued, in order)         *)
(*   History:                                                              *)
(*     inflightPrev  devices an earlier run launched and no run pivoted    *)
(***************************************************************************)
VARIABLES args, disks, persistent, jobs, backup,
          run, pc, connected, xml, volumes, migrated_volumes,
          devs_with_ongoing_jobs, target_devs, resumed, devs_complete, i,
          reported, queried, calls, inflightPrev

\* The state of copy-dual-sd.py:
\*   srcPathOne, srcPathTwo  the DCIM trees of the two cards
\*   destPath                the tree under the working directory
\*   FILE_QUEUE              the queue of relative paths
\*   PROGRESS_SEMAPHORE      the semaphore's counter
\*   toWalk                  what the walk of lines 68-75 has still to do
\*   totalCount              files put on the queue
\*   mpc                     the position of the main thread
\*   wpc, file_path          each worker's position and the path it holds
\*   copiesIdentical         `identical' of the comparison at line 88
\*   toCompare, toDescend    the common files and sub directories that
\*                           comparison has still to visit
\*   cmpStat                 what filecmp.cmp saw at its first os.stat
VARIABLES srcPathOne, srcPathTwo, destPath, FILE_QUEUE, PROGRESS_SEMAPHORE,
          toWalk, totalCount, mpc, wpc, file_path, copiesIdentical,
          toCompare, toDescend, cmpStat

cards == <<srcPathOne, srcPathTwo>>
postcmp == <<copiesIdentical, toCompare, toDescend, cmpStat>>
sd == <<cards, destPath, FILE_QUEUE, PROGRESS_SEMAPHORE,
        toWalk, totalCount, mpc, wpc, file_path, postcmp>>

world == <<args, disks, persistent, jobs, backup>>
locals == <<connected, xml, volumes, migrated_volumes, devs_with_ongoing_jobs,
            target_devs, resumed, devs_complete, i, reported, queried, calls>>
vars == <<world, run, pc, locals, inflightPrev, sd>>

EmptyDict == [d \in {} |-> 0]

\* copy-dual-sd.py is not running.
Workers == {"one", "two"}
\* Lines 19-24 and an empty working directory, with main at position m.
SdFresh(m) ==
    /\ destPath = EmptyDict
    /\ FILE_QUEUE = <<>> /\ PROGRESS_SEMAPHORE = 1
    /\ toWalk = <<>> /\ totalCount = 0
    /\ mpc = m
    /\ wpc = [w \in Workers |-> "unstarted"]
    /\ file_path = [w \in Workers |-> <<>>]
    /\ copiesIdentical = "unset"
    /\ toCompare = <<>> /\ toDescend = <<>> /\ cmpStat = ""
SdIdle ==
    /\ srcPathOne = EmptyDict /\ srcPathTwo = EmptyDict
    /\ SdFresh("idle")
NoJob == [active |-> FALSE, cur |-> 0, end |-> 0, dest |-> FileSource(<<>>)]
NotReported == 0 - 1
Terminal == {"done", "aborted", "error", "killed"}

\* The signals that end the process from outside: SIGINT, SIGKILL, SIGTERM.
Signals == {2, 9, 15}

\* The statuses the process of a run can end with: exit(0); exit(1) or an
\* uncaught exception (status 1); death by a signal (minus its number).  A
\* run that has not ended has none.
ExitStatus(p) ==
    IF p = "done" THEN {0}
    ELSE IF p \in {"aborted", "error"} THEN {1}
    ELSE IF p = "killed" THEN {0 - sig : sig \in Signals}
    ELSE {}

Call(op, dev, ok) == [op |-> op, dev |-> dev, ok |-> ok]
Issued(op) == {calls[k].dev : k \in {n \in DOMAIN calls : calls[n].op = op}}
Succeeded(op) ==
    {calls[k].dev : k \in {n \in DOMAIN calls : calls[n].op = op /\ calls[n].ok}}

(***************************************************************************)
(* Inputs of the session specification.                                    *)
(***************************************************************************)
DirA == <<"/", "a">>
DirB == <<"/", "b">>
\* The directory /b spelled through a parent segment.
DirBDotDot == <<"/", "b", "/", ".", ".", "/", "b">>
\* The destination directory as the operator types it, with a trailing
\* separator.
DestPath == <<"/", "b", "/">>
DestPool == <<"p", "2">>
OtherPool == <<"p", "1">>

\* The image name of each disk.
ImageName(d) == <<d>>

\* Where a disk may be when the first run starts: a file outside or inside
\* the destination directory, a volume of the destination pool; for the
\* first disk, a volume of another pool; and for the last disk, a file in
\* the destination directory named through a parent segment.
InitSources(d) ==
    {FileSource(DirA \o <<SEP>> \o ImageName(d)),
     FileSource(DirB \o <<SEP>> \o ImageName(d)),
     PoolSource(DestPool, ImageName(d))}
    \cup (IF d = DevOrder[1] THEN {PoolSource(OtherPool, ImageName(d))} ELSE {})
    \cup (IF d = DevOrder[Len(DevOrder)]
          THEN {FileSource(DirBDotDot \o <<SEP>> \o ImageName(d))} ELSE {})

\* Disk entries the script cannot parse into a descriptor, and entries
\* whose <target> names no device.
Malformed(src) == src.target # "dev" \/ src.kind \in {"none", "nosource"}
NoDev(src) == [src EXCEPT !.target = "nodev"]
MalformedSources(d) ==
    {NoDev(FileSource(DirA \o <<SEP>> \o ImageName(d))),
     NoDev(FileSource(DirB \o <<SEP>> \o ImageName(d))),
     [FileSource(DirA \o <<SEP>> \o ImageName(d)) EXCEPT !.target = "missing"],
     [kind |-> "none", file |-> <<>>, pool |-> <<>>, volume |-> <<>>, target |-> "dev"],
     [kind |-> "nosource", file |-> <<>>, pool |-> <<>>, volume |-> <<>>,
      target |-> "dev"]}

\* The descriptions a run starts from: every disk well formed, or the last
\* disk malformed next to file-backed disks.
WellFormedDisks ==
    {f \in [Devices -> UNION {InitSources(d) : d \in Devices}] :
        \A d \in Devices : f[d] \in InitSources(d)}
MalformedDisks ==
    LET last == DevOrder[Len(DevOrder)]
    IN  {f \in [Devices -> UNION {InitSources(d) \cup MalformedSources(d) : d \in Devices}] :
            /\ f[last] \in MalformedSources(last)
            /\ \A d \in Devices \ {last} : f[d] \in InitSources(d) /\ f[d].kind = "file"}

ArgChoices ==
    {[pool |-> None, filepath |-> Some(DestPath)],
     [pool |-> Some(DestPool), filepath |-> None],
     [pool |-> Some(DestPool), filepath |-> Some(DestPath)],
     [pool |-> None, filepath |-> None]}

InitLocals ==
    /\ connected = FALSE
    /\ xml = EmptyDict
    /\ volumes = EmptyDict
    /\ migrated_volumes = EmptyDict
    /\ devs_with_ongoing_jobs = <<>>
    /\ target_devs = <<>>
    /\ resumed = FALSE
    /\ devs_complete = {}
    /\ i = 1
    /\ reported = [d \in Devices |-> NotReported]
    /\ queried = ""
    /\ calls = <<>>

Init ==
    /\ args \in ArgChoices
    /\ disks \in WellFormedDisks \cup MalformedDisks
    /\ persistent = [defined |-> TRUE, disks |-> disks]
    /\ jobs = [d \in Devices |-> NoJob]
    /\ backup = [written |-> FALSE, disks |-> EmptyDict]
    /\ run = 1
    /\ pc = "start"
    /\ InitLocals
    /\ inflightPrev = {}
    /\ SdIdle

(***************************************************************************)
(* The hypervisor.                                                         *)
(***************************************************************************)
\* domain.XMLDesc(VIR_DOMAIN_XML_INACTIVE): the persistent definition; a
\* transient domain has only its live definition.
XMLDesc == IF persistent.defined THEN persistent.disks ELSE disks

\* domain.blockJobInfo(dev) is an empty dict when the disk has no job.
HasJob(d) == d \in Devices /\ jobs[d].active

\* The copy advances: cur grows towards end; a job that has reached end
\* stays in its mirroring phase until it is pivoted.
JobProgress(d) ==
    /\ jobs[d].active
    /\ jobs[d].cur < jobs[d].end
    /\ jobs' = [jobs EXCEPT ![d].cur = @ + 1]
    /\ UNCHANGED <<args, disks, persistent, backup, run, pc, locals, inflightPrev, sd>>

\* The work of a copy that has not reached its end grows (the guest writes
\* to the disk while it is copied): end rises and cur stays, so that
\* 100 * cur // end falls.  The job stays short of its end: of the script,
\* only the percentage of line 186 can tell the step.
JobGrows(d) ==
    /\ jobs[d].active
    /\ jobs[d].cur < jobs[d].end
    /\ jobs[d].end < MaxEnd + MaxGrow
    /\ jobs' = [jobs EXCEPT ![d].end = @ + 1]
    /\ UNCHANGED <<args, disks, persistent, backup, run, pc, locals, inflightPrev, sd>>

\* The job fails or is cancelled: the disk stays on its source and the
\* hypervisor reports no job for it any more.
JobFail(d) ==
    /\ jobs[d].active
    /\ jobs' = [jobs EXCEPT ![d] = NoJob]
    /\ UNCHANGED <<args, disks, persistent, backup, run, pc, locals, inflightPrev, sd>>

(***************************************************************************)
(* main()                                                                  *)
(***************************************************************************)
\* Lines 33-35: the destination check, before the connection is opened.
Main_CheckArgs ==
    /\ pc = "start"
    /\ pc' = IF BadDestination(args.pool, args.filepath) THEN "aborted" ELSE "connect"
    /\ UNCHANGED <<world, run, locals, inflightPrev, sd>>

\* Line 59: nothing left to migrate?
NothingToDo(vols) == Cardinality(DOMAIN vols) = 0

\* Lines 42-45: libvirt.open raises libvirtError; printLibvirtErrorAndExit
\* ends the run with exit(1).
Main_OpenFails ==
    /\ pc = "connect"
    /\ pc' = "aborted"
    /\ UNCHANGED <<world, run, locals, inflightPrev, sd>>

\* Lines 47-50: the connection is open and lookupByName raises libvirtError;
\* exit(1) with nothing read.
Main_LookupFails ==
    /\ pc = "connect"
    /\ connected' = TRUE
    /\ pc' = "aborted"
    /\ UNCHANGED <<world, run, xml, volumes, migrated_volumes,
                   devs_with_ongoing_jobs, target_devs, resumed, devs_complete, i,
                   reported, queried, calls, inflightPrev, sd>>

\* Lines 37-61: connect, read the description, plan.
Main_Inspect ==
    /\ pc = "connect"
    /\ connected' = TRUE
    /\ xml' = XMLDesc
    /\ IF GetVolumesRaises(XMLDesc)
       THEN \* line 54: getVolumes raises and binds nothing
            /\ pc' = "error"
            /\ UNCHANGED <<volumes, migrated_volumes>>
       ELSE IF \/ BadDestination(args.pool, args.filepath)
               \/ PartitionRaises(getVolumes(XMLDesc))
       THEN \* lines 120-121 and 127-130: removeVolumesAlreadyMigrated raises
            \* before its first pop; line 54 has bound every descriptor
            /\ pc' = "error"
            /\ volumes' = getVolumes(XMLDesc)
            /\ UNCHANGED migrated_volumes
       ELSE /\ volumes' = Remaining(getVolumes(XMLDesc), args.pool, args.filepath)
            /\ migrated_volumes' =
                   removeVolumesAlreadyMigrated(getVolumes(XMLDesc), args.pool,
                                                args.filepath)
            /\ pc' = IF NothingToDo(volumes') THEN "done" ELSE "probe"
    /\ i' = 1
    /\ UNCHANGED <<world, run, devs_with_ongoing_jobs, target_devs, resumed,
                   devs_complete, reported, queried, calls, inflightPrev, sd>>

\* Line 64, with the routing a run takes when it resumes only if every
\* pending device has a job.
OngoingFoundAll(ongoing, vols) == Len(ongoing) = Cardinality(DOMAIN vols)

\* Line 64: len(devs_with_ongoing_jobs).
OngoingFound(ongoing, vols) == Len(ongoing) # 0

\* Lines 63-70 and 156-161: checkForOngoingBlockCopy asks for the job of one
\* pending device; after the last one main() takes the resume or the fresh
\* route.
CheckForOngoing_Step ==
    /\ pc = "probe"
    /\ LET keys == KeysInOrder(volumes)
           d == keys[i]
           found == IF HasJob(d) THEN Append(devs_with_ongoing_jobs, d)
                    ELSE devs_with_ongoing_jobs
       IN  /\ devs_with_ongoing_jobs' = found
           /\ IF d = NoneKey
              THEN \* line 159: blockJobInfo(None) names no disk; libvirtError
                   /\ pc' = "error"
                   /\ UNCHANGED <<i, target_devs, resumed>>
              ELSE IF i < Len(keys)
              THEN /\ i' = i + 1
                   /\ UNCHANGED <<pc, target_devs, resumed>>
              ELSE /\ i' = 1
                   /\ IF OngoingFound(found, volumes)
                      THEN /\ pc' = "poll"
                           /\ target_devs' = found
                           /\ resumed' = TRUE
                      ELSE /\ pc' = "confirm"
                           /\ UNCHANGED <<target_devs, resumed>>
    /\ UNCHANGED <<world, run, connected, xml, volumes, migrated_volumes,
                   devs_complete, reported, queried, calls, inflightPrev, sd>>

\* The prompt placed after the backup: a declined run has written the file.
Main_ConfirmAfterBackup ==
    /\ pc = "confirm"
    /\ \E response \in {"y", "n"} :
           pc' = IF response = "y" THEN "backup" ELSE "aborted"
    /\ backup' = [written |-> TRUE, disks |-> xml]
    /\ UNCHANGED <<args, disks, persistent, jobs, run, locals, inflightPrev, sd>>

\* Lines 72-74: the operator answers the prompt.
Main_Confirm ==
    /\ pc = "confirm"
    /\ \E response \in {"y", "n"} :
           pc' = IF response = "y" THEN "backup" ELSE "aborted"
    /\ UNCHANGED <<world, run, locals, inflightPrev, sd>>

\* The run goes on to undefine without writing the file.
Main_BackupSkipped ==
    /\ pc = "backup"
    /\ pc' = "undefine"
    /\ UNCHANGED <<world, run, locals, inflightPrev, sd>>

\* Lines 78-81: open(backup_filename, "w") creates the file or truncates the
\* one an earlier run wrote; it is empty until the write.
Main_BackupOpen ==
    /\ pc = "backup"
    /\ backup' = [written |-> TRUE, disks |-> EmptyDict]
    /\ pc' = "backup_write"
    /\ UNCHANGED <<args, disks, persistent, jobs, run, locals, inflightPrev, sd>>

\* Line 82: the description read at line 53 is written to the file, and the
\* file is closed.
Main_Backup ==
    /\ pc = "backup_write"
    /\ backup' = [written |-> TRUE, disks |-> xml]
    /\ calls' = Append(calls, Call("backup", "", TRUE))
    /\ pc' = "undefine"
    /\ UNCHANGED <<args, disks, persistent, jobs, run, connected, xml, volumes,
                   migrated_volumes, devs_with_ongoing_jobs, target_devs, resumed,
                   devs_complete, i, reported, queried, inflightPrev, sd>>

\* Line 84: undefineFlags.  libvirt refuses to undefine a transient domain.
Main_Undefine ==
    /\ pc = "undefine"
    /\ calls' = Append(calls, Call("undefine", "", persistent.defined))
    /\ IF persistent.defined
       THEN /\ persistent' = [defined |-> FALSE, disks |-> EmptyDict]
            /\ pc' = "launch"
       ELSE /\ pc' = "error"
            /\ UNCHANGED persistent
    /\ i' = 1
    /\ UNCHANGED <<args, disks, jobs, backup, run, connected, xml, volumes,
                   migrated_volumes, devs_with_ongoing_jobs, target_devs, resumed,
                   devs_complete, reported, queried, inflightPrev, sd>>

\* A launch loop left after its first device.
Main_LaunchOkSkipsRest ==
    /\ pc = "launch"
    /\ LET keys == KeysInOrder(volumes)
           d == keys[i]
       IN  /\ ~HasJob(d)
           /\ jobs' = [jobs EXCEPT ![d] =
                  [active |-> TRUE, cur |-> 0, end |-> MaxEnd,
                   dest |-> getDestinationXML(volumes[d], args.pool, args.filepath)]]
           /\ calls' = Append(calls, Call("blockCopy", d, TRUE))
           /\ i' = 1
           /\ pc' = "poll"
           /\ target_devs' = keys
    /\ UNCHANGED <<args, disks, persistent, backup, run, connected, xml, volumes,
                   migrated_volumes, devs_with_ongoing_jobs, resumed,
                   devs_complete, reported, queried, inflightPrev, sd>>

\* Lines 86-88: blockCopy starts the job of the next pending device.
Main_LaunchOk ==
    /\ pc = "launch"
    /\ LET keys == KeysInOrder(volumes)
           d == keys[i]
       IN  /\ ~HasJob(d)
           /\ getDestinationXML(volumes[d], args.pool, args.filepath) # DestinationRaises
           /\ jobs' = [jobs EXCEPT ![d] =
                  [active |-> TRUE, cur |-> 0, end |-> MaxEnd,
                   dest |-> getDestinationXML(volumes[d], args.pool, args.filepath)]]
           /\ calls' = Append(calls, Call("blockCopy", d, TRUE))
           /\ IF i < Len(keys)
              THEN /\ i' = i + 1
                   /\ UNCHANGED <<pc, target_devs>>
              ELSE /\ i' = 1
                   /\ pc' = "poll"
                   /\ target_devs' = keys
    /\ UNCHANGED <<args, disks, persistent, backup, run, connected, xml, volumes,
                   migrated_volumes, devs_with_ongoing_jobs, resumed,
                   devs_complete, reported, queried, inflightPrev, sd>>

\* A failed blockCopy that is swallowed: the loop goes on to the next device.
Main_LaunchFailContinue ==
    /\ pc = "launch"
    /\ LET keys == KeysInOrder(volumes)
           d == keys[i]
       IN  /\ calls' = Append(calls, Call("blockCopy", d, FALSE))
           /\ IF i < Len(keys)
              THEN /\ i' = i + 1
                   /\ UNCHANGED <<pc, target_devs>>
              ELSE /\ i' = 1
                   /\ pc' = "poll"
                   /\ target_devs' = keys
    /\ UNCHANGED <<world, run, connected, xml, volumes, migrated_volumes,
                   devs_with_ongoing_jobs, resumed, devs_complete, reported, queried,
                   inflightPrev, sd>>

\* Line 88: blockCopy raises libvirtError; nothing catches it.
Main_LaunchFail ==
    /\ pc = "launch"
    /\ LET d == KeysInOrder(volumes)[i]
       IN  IF getDestinationXML(volumes[d], args.pool, args.filepath) = DestinationRaises
           THEN \* line 87 raises before the request is made
                UNCHANGED calls
           ELSE calls' = Append(calls, Call("blockCopy", d, FALSE))
    /\ pc' = "error"
    /\ UNCHANGED <<world, run, connected, xml, volumes, migrated_volumes,
                   devs_with_ongoing_jobs, target_devs, resumed, devs_complete, i,
                   reported, queried, inflightPrev, sd>>

(***************************************************************************)
(* waitForAllBlockCopy                                                     *)
(***************************************************************************)
\* The loop leaves as soon as one device is complete.
WaitOverAny(complete, devs) == Cardinality(complete) >= 1

\* Line 178, negated: the while loop is left.
WaitOver(complete, devs) == ~(Cardinality(complete) < Len(devs))

\* Is the job of d still copying (line 185)?
StillCopying(d) == HasJob(d) /\ jobs[d].cur < jobs[d].end

\* Lines 181-190: the percentage printed for d in this tick.
Percent(d) ==
    IF d \in devs_complete THEN 100
    ELSE IF StillCopying(d) THEN Progress(jobs[d].cur, jobs[d].end)
    ELSE 100

\* The loop body asking for the status of every device, complete or not.
Wait_PollRequery ==
    /\ pc = "poll"
    /\ LET d == target_devs[i]
           complete == IF d \notin devs_complete /\ ~StillCopying(d)
                       THEN devs_complete \cup {d} ELSE devs_complete
       IN  /\ devs_complete' = complete
           /\ queried' = d
           /\ reported' = [reported EXCEPT ![d] = Percent(d)]
           /\ IF i < Len(target_devs)
              THEN i' = i + 1 /\ UNCHANGED pc
              ELSE /\ i' = 1
                   /\ pc' = IF WaitOver(complete, target_devs) THEN "polled" ELSE "poll"
    /\ UNCHANGED <<world, run, connected, xml, volumes, migrated_volumes,
                   devs_with_ongoing_jobs, target_devs, resumed, calls,
                   inflightPrev, sd>>

\* Lines 180-191: one device of one tick; after the last device the loop
\* sleeps and tests its condition again.
Wait_Poll ==
    /\ pc = "poll"
    /\ LET d == target_devs[i]
           complete == IF d \notin devs_complete /\ ~StillCopying(d)
                       THEN devs_complete \cup {d} ELSE devs_complete
       IN  /\ devs_complete' = complete
           /\ queried' = IF d \in devs_complete THEN "" ELSE d
           /\ IF i < Len(target_devs)
              THEN /\ i' = i + 1
                   /\ reported' = [reported EXCEPT ![d] = Percent(d)]
                   /\ UNCHANGED pc
              ELSE /\ i' = 1
                   /\ reported' = [reported EXCEPT ![d] = Percent(d)]
                   /\ pc' = IF WaitOver(complete, target_devs) THEN "polled" ELSE "poll"
    /\ UNCHANGED <<world, run, connected, xml, volumes, migrated_volumes,
                   devs_with_ongoing_jobs, target_devs, resumed, calls,
                   inflightPrev, sd>>

\* Line 192: the loop is over and the progress line is ended.
Wait_End ==
    /\ pc = "polled"
    /\ reported' = [d \in Devices |-> NotReported]
    /\ queried' = ""
    /\ pc' = "pivot"
    /\ UNCHANGED <<world, run, connected, xml, volumes, migrated_volumes,
                   devs_with_ongoing_jobs, target_devs, resumed, devs_complete, i,
                   calls, inflightPrev, sd>>

(***************************************************************************)
(* pivotAllBlockCopyJobs                                                   *)
(***************************************************************************)
\* blockJobAbort(PIVOT) succeeds on a job that is in its mirroring phase.
CanPivot(d) == HasJob(d) /\ jobs[d].cur >= jobs[d].end

\* Lines 68-70 and 90-94: where main() goes after the last pivot.
AfterPivot == IF resumed THEN "done" ELSE "redefine"

\* Lines 195-196: the domain switches to the copy and the job ends.
Pivot_Ok ==
    /\ pc = "pivot"
    /\ LET d == target_devs[i]
       IN  /\ CanPivot(d)
           /\ disks' = [disks EXCEPT ![d] = jobs[d].dest]
           /\ jobs' = [jobs EXCEPT ![d] = NoJob]
           /\ calls' = Append(calls, Call("pivot", d, TRUE))
    /\ IF i < Len(target_devs)
       THEN /\ i' = i + 1
            /\ UNCHANGED pc
       ELSE /\ i' = 1
            /\ pc' = AfterPivot
    /\ UNCHANGED <<args, persistent, backup, run, connected, xml, volumes,
                   migrated_volumes, devs_with_ongoing_jobs, target_devs, resumed,
                   devs_complete, reported, queried, inflightPrev, sd>>

\* A failed pivot that is swallowed: the loop goes on to the next device.
Pivot_FailContinue ==
    /\ pc = "pivot"
    /\ ~CanPivot(target_devs[i])
    /\ calls' = Append(calls, Call("pivot", target_devs[i], FALSE))
    /\ IF i < Len(target_devs)
       THEN /\ i' = i + 1
            /\ UNCHANGED pc
       ELSE /\ i' = 1
            /\ pc' = AfterPivot
    /\ UNCHANGED <<world, run, connected, xml, volumes, migrated_volumes,
                   devs_with_ongoing_jobs, target_devs, resumed, devs_complete,
                   reported, queried, inflightPrev, sd>>

\* Line 196: blockJobAbort raises libvirtError (the disk has no job any
\* more); nothing catches it.
Pivot_Fail ==
    /\ pc = "pivot"
    /\ ~CanPivot(target_devs[i])
    /\ calls' = Append(calls, Call("pivot", target_devs[i], FALSE))
    /\ pc' = "error"
    /\ UNCHANGED <<world, run, connected, xml, volumes, migrated_volumes,
                   devs_with_ongoing_jobs, target_devs, resumed, devs_complete, i,
                   reported, queried, inflightPrev, sd>>

\* Lines 92-94: the description is read again and made persistent.
Main_Redefine ==
    /\ pc = "redefine"
    /\ persistent' = [defined |-> TRUE, disks |-> XMLDesc]
    /\ calls' = Append(calls, Call("defineXML", "", TRUE))
    /\ pc' = "done"
    /\ UNCHANGED <<args, disks, jobs, backup, run, connected, xml, volumes,
                   migrated_volumes, devs_with_ongoing_jobs, target_devs, resumed,
                   devs_complete, i, reported, queried, inflightPrev, sd>>

(***************************************************************************)
(* The operator: the process is interrupted, the script is run again.      *)
(***************************************************************************)
\* The process dies with everything it held in memory; what it asked of the
\* hypervisor stays asked.
Kill ==
    /\ pc \notin Terminal
    /\ pc' = "killed"
    /\ connected' = FALSE
    /\ xml' = EmptyDict
    /\ volumes' = EmptyDict
    /\ migrated_volumes' = EmptyDict
    /\ devs_with_ongoing_jobs' = <<>>
    /\ target_devs' = <<>>
    /\ resumed' = FALSE
    /\ devs_complete' = {}
    /\ i' = 1
    /\ reported' = [d \in Devices |-> NotReported]
    /\ queried' = ""
    /\ UNCHANGED <<world, run, calls, inflightPrev, sd>>

NewRun ==
    /\ pc \in Terminal
    /\ run < MaxRuns
    /\ run' = run + 1
    /\ pc' = "start"
    /\ inflightPrev' = (inflightPrev \cup Succeeded("blockCopy")) \ Succeeded("pivot")
    /\ connected' = FALSE
    /\ xml' = EmptyDict
    /\ volumes' = EmptyDict
    /\ migrated_volumes' = EmptyDict
    /\ devs_with_ongoing_jobs' = <<>>
    /\ target_devs' = <<>>
    /\ resumed' = FALSE
    /\ devs_complete' = {}
    /\ i' = 1
    /\ reported' = [d \in Devices |-> NotReported]
    /\ queried' = ""
    /\ calls' = <<>>
    /\ UNCHANGED <<world, sd>>

Next ==
    \/ Main_CheckArgs
    \/ Main_OpenFails
    \/ Main_LookupFails
    \/ Main_Inspect
    \/ CheckForOngoing_Step
    \/ Main_Confirm
    \/ Main_BackupOpen
    \/ Main_Backup
    \/ Main_Undefine
    \/ Main_LaunchOk
    \/ Main_LaunchFail
    \/ Wait_Poll
    \/ Wait_End
    \/ Pivot_Ok
    \/ Pivot_Fail
    \/ Main_Redefine
    \/ Kill
    \/ NewRun
    \/ \E d \in Devices : JobProgress(d)
    \/ \E d \in Devices : JobFail(d)

Spec == Init /\ [][Next]_vars

\* The run is not suspended while it polls (line 191 sleeps one second and
\* the loop goes on), and a copy that has not reached its end advances.
\* The runs considered start from file-backed disks and a --filepath.
FairInit ==
    /\ Init
    /\ args = [pool |-> None, filepath |-> Some(DestPath)]
    /\ \A d \in Devices : disks[d].kind = "file" /\ ~Malformed(disks[d])
SpecFair ==
    /\ FairInit /\ [][Next]_vars
    /\ WF_vars(Wait_Poll)
    /\ \A d \in Devices : WF_vars(JobProgress(d))

\* The same runs with a hypervisor that may raise the end of a job.
NextGrow ==
    \/ Next
    \/ \E d \in Devices : JobGrows(d)
SpecGrow == FairInit /\ [][NextGrow]_vars

(***************************************************************************)
(* removeVolumesAlreadyMigrated on its own: the partition of any           *)
(* description for any destination.  The description holds one or two      *)
(* disks; the first is a file in any directory or a volume of any pool.    *)
(***************************************************************************)
PathChars == {"/", ".", "a"}
PathStrings == UNION {[1..n -> PathChars] : n \in 0..MaxPathLen}
PoolNames == {OtherPool, DestPool}
\* Two longer ways to write the directory /a, through "..".
DotDotPaths ==
    {<<"/", "a", "/", ".", ".", "/", "a">>,
     <<"/", "a", "/", "a", "/", ".", ".">>}
PartitionPaths == PathStrings \cup DotDotPaths

PartitionArgs ==
    {[pool |-> None, filepath |-> Some(f)] : f \in PartitionPaths}
    \cup {[pool |-> Some(q), filepath |-> None] : q \in PoolNames}
    \cup {[pool |-> Some(DestPool), filepath |-> Some(DestPath)],
          [pool |-> None, filepath |-> None]}

PartitionFirstDisk ==
    {FileSource(dir \o <<SEP>> \o ImageName("vda")) : dir \in PartitionPaths}
    \cup {PoolSource(q, ImageName("vda")) : q \in PoolNames}

PartitionDescriptions ==
    {[d \in {"vda"} |-> first] : first \in PartitionFirstDisk}
    \cup {[d \in {"vda", "vdb"} |-> IF d = "vda" THEN first ELSE second] :
             first \in PartitionFirstDisk, second \in InitSources("vdb")}

PartitionInit ==
    /\ args \in PartitionArgs
    /\ disks \in PartitionDescriptions
    /\ persistent = [defined |-> TRUE, disks |-> disks]
    /\ jobs = [d \in Devices |-> NoJob]
    /\ backup = [written |-> FALSE, disks |-> EmptyDict]
    /\ run = 1
    /\ pc = "connect"
    /\ InitLocals
    /\ inflightPrev = {}
    /\ SdIdle

PartitionNext == Main_Inspect

SpecPartition == PartitionInit /\ [][PartitionNext]_vars

(***************************************************************************)
(* Vocabulary of the properties.                                           *)
(***************************************************************************)
\* Exactly one of --pool and --filepath was given.
ValidDestination == args.pool.isNone # args.filepath.isNone

\* The requests that change the domain or its jobs.
Destructive == {"undefine", "blockCopy", "pivot"}
Mutating == Destructive \cup {"defineXML"}

\* The run has passed checkForOngoingBlockCopy (line 63) and is alive or
\* has exited by itself.
Probed ==
    /\ connected
    /\ \/ pc \in {"poll", "polled", "pivot", "confirm", "backup", "backup_write",
                  "undefine", "launch", "redefine"}
       \/ pc = "aborted" /\ DOMAIN volumes # {}
       \/ pc = "done" /\ (resumed \/ calls # <<>>)
       \/ pc = "error" /\ (resumed \/ calls # <<>>)

\* The directory part of a file name, as a string: up to the last separator.
LastSep(s) ==
    IF \E k \in DOMAIN s : s[k] = SEP
    THEN CHOOSE k \in DOMAIN s : s[k] = SEP /\ \A m \in DOMAIN s : s[m] = SEP => m <= k
    ELSE 0
DirName(s) == SubSeq(s, 1, LastSep(s))

\* The directory a path string names, as the operating system resolves it:
\* empty and "." segments are skipped and ".." leaves the directory it
\* follows (the root is its own parent).
RECURSIVE ResolveSegs(_, _, _)
ResolveSegs(segs, abs, acc) ==
    IF segs = <<>> THEN acc
    ELSE LET x == Head(segs)
         IN  IF x = <<>> \/ x = <<".">> THEN ResolveSegs(Tail(segs), abs, acc)
             ELSE IF x = <<".", ".">>
             THEN IF acc # <<>> /\ acc[Len(acc)] # <<".", ".">>
                  THEN ResolveSegs(Tail(segs), abs, SubSeq(acc, 1, Len(acc) - 1))
                  ELSE IF abs THEN ResolveSegs(Tail(segs), abs, acc)
                  ELSE ResolveSegs(Tail(segs), abs, Append(acc, x))
             ELSE ResolveSegs(Tail(segs), abs, Append(acc, x))
Resolve(s) ==
    LET abs == s # <<>> /\ Head(s) = SEP
    IN  [root |-> SplitRoot(s), segs |-> ResolveSegs(SplitSep(s, <<>>), abs, <<>>)]

\* The disk with this <source> is at the requested destination.
DiskAtDestination(src) ==
    IF ~args.filepath.isNone
    THEN src.kind = "file" /\ Resolve(DirName(src.file)) = Resolve(args.filepath.val)
    ELSE src.kind = "pool" /\ src.pool = args.pool.val

(***************************************************************************)
(* C1  Resume correctness.                                                 *)
(***************************************************************************)
\* C1, as stated: once a run has passed the Resume Detector, every device
\* that an earlier run launched and no run pivoted is in the ongoing set,
\* the run is on the resume route, and it has issued no launch for it.
C1_ResumeFindsEveryLaunched ==
    Probed =>
        \A d \in inflightPrev :
            /\ d \in Range(devs_with_ongoing_jobs)
            /\ resumed
            /\ d \notin Issued("blockCopy")

\* C1, amended: the same for every such device whose job the hypervisor
\* still reports: the run has issued no launch for it and, once past the
\* Resume Detector, has it in the ongoing set and is on the resume route.
C1_ResumeFindsReportedJobs ==
    \A d \in inflightPrev :
        HasJob(d) =>
            /\ d \notin Issued("blockCopy")
            /\ Probed => (d \in Range(devs_with_ongoing_jobs) /\ resumed)

\* A later run resumes a job that an earlier run launched for one device
\* only, and is about to pivot it.
C1_Witness ==
    /\ run > 1
    /\ pc = "pivot"
    /\ resumed
    /\ Cardinality(DOMAIN volumes) > Len(target_devs)
    /\ \E d \in inflightPrev : HasJob(d) /\ d \in Range(target_devs)

(***************************************************************************)
(* C2  Pivot ordering.                                                     *)
(***************************************************************************)
\* C2: once a run has issued a pivot request, waitForAllBlockCopy has
\* observed every device of the monitored set as complete, and none of them
\* has a job that is still copying.
C2_PivotAfterAllComplete ==
    (pc # "killed" /\ Issued("pivot") # {}) =>
        /\ Range(target_devs) \subseteq devs_complete
        /\ Issued("pivot") \subseteq devs_complete
        /\ \A d \in Range(target_devs) : ~StillCopying(d)

\* A pivot has been issued for the first of several monitored devices.
C2_Witness ==
    /\ pc = "pivot"
    /\ i = 2
    /\ Succeeded("pivot") = {target_devs[1]}
    /\ Len(target_devs) = 3

(***************************************************************************)
(* C3  All-or-nothing on launch failure.                                   *)
(***************************************************************************)
\* C3: a failed blockCopy is the last request of its run: no launch of a
\* later device, no pivot and no defineXML follow it, and the run ends with
\* the error (exit status not 0).
C3_LaunchFailureAborts ==
    \A k \in DOMAIN calls :
        (calls[k].op = "blockCopy" /\ ~calls[k].ok) =>
            /\ k = Len(calls)
            /\ pc = "error"
            /\ 0 \notin ExitStatus(pc)
            /\ Issued("pivot") = {}
            /\ Issued("defineXML") = {}

\* The launch of the second of three pending devices failed after the first
\* succeeded.
C3_Witness ==
    /\ pc = "error"
    /\ Cardinality(DOMAIN volumes) = 3
    /\ Succeeded("blockCopy") = {DevOrder[1]}
    /\ Issued("blockCopy") = {DevOrder[1], DevOrder[2]}

(***************************************************************************)
(* C4  A successful run leaves the persistent configuration updated.       *)
(***************************************************************************)
\* C4: when a run that pivoted at least one device ends Done, the domain
\* has a persistent definition and it is the post-migration description.
C4_DoneIsPersistent ==
    (pc = "done" /\ Succeeded("pivot") # {}) =>
        /\ persistent.defined
        /\ persistent.disks = disks

(***************************************************************************)
(* C5  Idempotence.                                                        *)
(***************************************************************************)
\* C5: a run that finds every disk at the requested destination plans
\* pending = {} and alreadyMigrated = all disks, ends Done and issues no
\* request and writes no backup; and a fresh run that ends Done leaves
\* every disk at the destination, so that the next run is such a run.
C5_NoOpWhenAllMigrated ==
    /\ (connected /\ ValidDestination /\ DOMAIN xml # {} /\
        \A d \in DOMAIN xml : DiskAtDestination(xml[d])) =>
           /\ pc = "done"
           /\ ExitStatus(pc) = {0}
           /\ DOMAIN volumes = {}
           /\ DOMAIN migrated_volumes = {KeyOf(xml, d) : d \in DOMAIN xml}
           /\ calls = <<>>
    /\ (pc = "done" /\ ValidDestination /\ Issued("defineXML") # {}) =>
           /\ persistent.defined
           /\ \A d \in Devices : DiskAtDestination(persistent.disks[d])

(***************************************************************************)
(* C6  Destination mutual exclusion.                                       *)
(***************************************************************************)
\* C6: with both or neither of --pool and --filepath the run fails before
\* it contacts the hypervisor: it never connects and never reads or plans.
C6_InvalidDestinationRejected ==
    ~ValidDestination =>
        /\ ~connected
        /\ pc \in {"start", "aborted", "killed"}

(***************************************************************************)
(* C7  Partition completeness and disjointness.                            *)
(***************************************************************************)
\* C7: after removeVolumesAlreadyMigrated the pending and the migrated map
\* have disjoint key sets whose union is the key set of the input, and each
\* device keeps the descriptor it had.
C7_PartitionIsExact ==
    (connected /\ pc \in {"done", "probe"}) =>
        /\ DOMAIN volumes \cap DOMAIN migrated_volumes = {}
        /\ DOMAIN volumes \cup DOMAIN migrated_volumes = DOMAIN xml
        /\ \A d \in DOMAIN volumes : volumes[d] = getVolumes(xml)[d]
        /\ \A d \in DOMAIN migrated_volumes : migrated_volumes[d] = getVolumes(xml)[d]

\* A description of two disks was split into one pending and one migrated.
C7_Witness ==
    /\ connected
    /\ pc = "probe"
    /\ Cardinality(DOMAIN volumes) = 1
    /\ Cardinality(DOMAIN migrated_volumes) = 1

(***************************************************************************)
(* C8  Backup before destruction.                                          *)
(***************************************************************************)
\* C8: whenever a run has issued undefine, blockCopy or a pivot, the backup
\* file has been written, in this run before the request or in an earlier
\* run; and it holds, for every device launched or pivoted, the source the
\* device had before: the one the run read at line 53, which the partition
\* took for pending.
C8_BackupBeforeDestruction ==
    \A k \in DOMAIN calls :
        calls[k].op \in Destructive =>
            /\ backup.written
            /\ \A j \in DOMAIN calls : calls[j].op = "backup" => j < k
            /\ (calls[k].dev \in Devices /\ calls[k].ok) =>
                  /\ calls[k].dev \in DOMAIN backup.disks
                  /\ calls[k].dev \in DOMAIN xml =>
                         backup.disks[calls[k].dev] = xml[calls[k].dev]
                  /\ ~AlreadyMigrated(getVolumes(backup.disks)[calls[k].dev],
                                      args.pool, args.filepath)

\* A resumed run, which writes no backup itself, has pivoted a device.
C8_Witness ==
    /\ resumed
    /\ Succeeded("pivot") # {}
    /\ backup.written
    /\ \A k \in DOMAIN calls : calls[k].op # "backup"

(***************************************************************************)
(* C9  Pivot failure aborts the session.                                   *)
(***************************************************************************)
\* C9: a failed pivot is the last request of its run and the run ends with
\* the error; defineXML is issued only after the pivot of every pending
\* device succeeded, and defines the description as it is after them.
C9_PivotFailureAborts ==
    /\ \A k \in DOMAIN calls :
           (calls[k].op = "pivot" /\ ~calls[k].ok) =>
               /\ k = Len(calls)
               /\ pc = "error"
               /\ 0 \notin ExitStatus(pc)
    /\ Issued("defineXML") # {} =>
           /\ Succeeded("pivot") = DOMAIN volumes
           /\ \A k \in DOMAIN calls : calls[k].op = "pivot" => calls[k].ok
           /\ calls[Len(calls)].op = "defineXML"
           /\ persistent.defined
           /\ \A d \in DOMAIN volumes :
                  persistent.disks[d] =
                      getDestinationXML(volumes[d], args.pool, args.filepath)

\* The pivot of the second of three devices failed after the first
\* succeeded.
C9_Witness ==
    /\ pc = "error"
    /\ Len(target_devs) = 3
    /\ i = 2
    /\ Succeeded("pivot") = {target_devs[1]}
    /\ Issued("pivot") = {target_devs[1], target_devs[2]}

(***************************************************************************)
(* C10  Progress monotonicity.                                             *)
(***************************************************************************)
\* A step of waitForAllBlockCopy that polls one device.
PollStep == pc = "poll" /\ pc' \in {"poll", "polled"} /\ jobs' = jobs

\* C10, as stated: the percentage a poll reports for a device is not below
\* the one reported for it before; it is 100 exactly when the device was already
\* observed complete, or has no job, or cur >= end; otherwise it is
\* floor(100 * cur / end), which is below 100.
C10_ProgressMonotone ==
    [][PollStep =>
        LET d == target_devs[i]
        IN  /\ reported'[d] >= reported[d]
            /\ reported'[d] = 100 <=>
                   (d \in devs_complete \/ ~HasJob(d) \/ jobs[d].cur >= jobs[d].end)
            /\ reported'[d] # 100 =>
                   /\ reported'[d] = (100 * jobs[d].cur) \div jobs[d].end
                   /\ reported'[d] < 100
            /\ \A e \in Devices \ {d} : reported'[e] = reported[e]]_vars

\* The hypervisor reports no job for d, or a job whose end is the one it
\* started with.
EndKept(d) == ~HasJob(d) \/ jobs[d].end = MaxEnd

\* C10, amended: the percentage a poll reports for a device whose job has
\* kept the end it started with is not below the one reported for it
\* before; for every device it is 100 exactly when the device was already
\* observed complete, or has no job, or cur >= end; otherwise it is
\* floor(100 * cur / end), which is below 100.
C10_ProgressMonotoneWhileEndKept ==
    [][PollStep =>
        LET d == target_devs[i]
        IN  /\ EndKept(d) => reported'[d] >= reported[d]
            /\ reported'[d] = 100 <=>
                   (d \in devs_complete \/ ~HasJob(d) \/ jobs[d].cur >= jobs[d].end)
            /\ reported'[d] # 100 =>
                   /\ reported'[d] = (100 * jobs[d].cur) \div jobs[d].end
                   /\ reported'[d] < 100
            /\ \A e \in Devices \ {d} : reported'[e] = reported[e]]_vars

\* A device whose job has kept its end was reported at a percentage
\* strictly between 0 and 100.
C10_Witness ==
    /\ pc = "poll"
    /\ \E d \in Range(target_devs) :
           /\ reported[d] > 0 /\ reported[d] < 100
           /\ HasJob(d) /\ jobs[d].end = MaxEnd

(***************************************************************************)
(* C11  Partition classification.                                          *)
(***************************************************************************)
\* C11: after the partition, for a valid destination, a disk is in the
\* migrated map exactly if it is at the destination: a file whose directory
\* is the destination directory (trailing separators, "." and ".." resolved),
\* or a volume of the destination pool; a disk of the other kind is pending.
C11_ClassifiedByPathEquality ==
    (connected /\ pc \in {"done", "probe"} /\ ValidDestination) =>
        \A d \in DOMAIN xml :
            /\ d \in DOMAIN migrated_volumes <=> DiskAtDestination(xml[d])
            /\ (xml[d].kind = "pool" /\ ~args.filepath.isNone) => d \in DOMAIN volumes
            /\ (xml[d].kind = "file" /\ args.filepath.isNone) => d \in DOMAIN volumes

\* C12: if any disk entry of the description has neither a file nor a pool
\* source, or lacks a target device id, the session fails (never Done) and
\* issues no mutation: no backup write, undefine, blockCopy, pivot or
\* defineXML.
C12_MalformedDescriptorFails ==
    (connected /\ \E d \in DOMAIN xml : Malformed(xml[d])) =>
        /\ pc # "done"
        /\ \A op \in Mutating : Issued(op) = {}
        /\ ~backup.written

(***************************************************************************)
(* C13  Operator decline.                                                  *)
(***************************************************************************)
\* The steps of the script before the prompt is answered: they move pc or
\* the loop index of the probe.
BeforeAnswer == {"start", "connect", "probe", "confirm"}

\* C13: a fresh run (pending non-empty, no ongoing job found) whose
\* operator declines ends Aborted with a non-zero exit status; no step of
\* the run up to and including the decline issues a request or writes the
\* backup, and each leaves the definition, the disks and the jobs as they
\* are.
C13_DeclineLeavesNoTrace ==
    [][/\ (pc \in BeforeAnswer /\ (pc' # pc \/ i' # i)) =>
              /\ UNCHANGED world
              /\ calls' = <<>>
       /\ (pc = "confirm" /\ pc' = "aborted") =>
              /\ 0 \notin ExitStatus(pc')
              /\ ~resumed' /\ devs_with_ongoing_jobs' = <<>>
              /\ DOMAIN volumes' # {}
              /\ \A op \in Mutating \cup {"backup"} : Issued(op)' = {}]_vars

\* The operator has declined a run on a domain that an earlier run left
\* undefined, with its backup written.
C13_Witness ==
    /\ pc = "aborted" /\ connected
    /\ DOMAIN volumes # {}
    /\ backup.written /\ ~persistent.defined

(***************************************************************************)
(* C15  waitForAllBlockCopy terminates.                                    *)
(***************************************************************************)
\* C15: waitForAllBlockCopy returns only with every device of its set in
\* devs_complete; a device enters devs_complete only in the loop body that
\* asked for its status and found no job or cur >= end; a loop body never
\* asks for the status of a device already in devs_complete; and when
\* every copy keeps advancing and the loop keeps running, the loop is left.
C15_WaitTerminates ==
    /\ [](pc \in {"polled", "pivot"} => Range(target_devs) \subseteq devs_complete)
    /\ [][\A d \in Devices :
             d \in devs_complete' \ devs_complete =>
                 /\ pc = "poll" /\ target_devs[i] = d /\ queried' = d
                 /\ ~HasJob(d) \/ jobs[d].cur >= jobs[d].end]_vars
    /\ [][PollStep => queried' \notin devs_complete]_vars
    /\ (pc = "poll") ~> (pc # "poll")

\* The loop has returned with one device whose job had vanished and one
\* whose job had reached its end, after a body that asked for no status.
C15_Witness ==
    /\ pc = "polled"
    /\ queried = ""
    /\ \E d, e \in Range(target_devs) :
           ~HasJob(d) /\ HasJob(e) /\ jobs[e].cur >= jobs[e].end

(***************************************************************************)
(* C16  Only pending devices are touched.                                  *)
(***************************************************************************)
\* The requests of kind op this run has issued for device d.
CountIssued(op, d) ==
    Cardinality({k \in DOMAIN calls : calls[k].op = op /\ calls[k].dev = d})

\* The launch loop of a fresh run has run to its end.
Launched == ~resumed /\ pc \in {"poll", "polled", "pivot", "redefine"}

\* C16: a run launches and pivots only devices of its pending set, each at
\* most once, and never a device it classified as already migrated; a
\* fresh run whose launch loop is over has launched every pending device
\* exactly once; a resumed run launches nothing and pivots only devices
\* the probe reported with an ongoing job.
C16_OnlyPendingTouched ==
    pc # "killed" =>
        /\ Issued("blockCopy") \cup Issued("pivot") \subseteq DOMAIN volumes
        /\ (Issued("blockCopy") \cup Issued("pivot")) \cap DOMAIN migrated_volumes = {}
        /\ \A d \in Devices :
               CountIssued("blockCopy", d) <= 1 /\ CountIssued("pivot", d) <= 1
        /\ Launched =>
               \A d \in DOMAIN volumes :
                   CountIssued("blockCopy", d) = 1 /\ d \in Succeeded("blockCopy")
        /\ resumed =>
               /\ Issued("blockCopy") = {}
               /\ Issued("pivot") \subseteq Range(devs_with_ongoing_jobs)

\* A fresh run with one disk already migrated has launched its two pending
\* disks and pivoted the first.
C16_Witness ==
    /\ Launched /\ pc = "pivot"
    /\ Cardinality(DOMAIN volumes) = 2 /\ DOMAIN migrated_volumes # {}
    /\ Cardinality(Succeeded("pivot")) = 1

\* A resumed run has pivoted a device the probe reported while another
\* pending device had no job.
C16_ResumedWitness ==
    /\ resumed /\ Succeeded("pivot") # {}
    /\ DOMAIN volumes \ Range(devs_with_ongoing_jobs) # {}

(***************************************************************************)
(* C17  Undefine and the backup across runs.                               *)
(***************************************************************************)
\* The step opens or writes the backup file, or issues undefine.
WritesBackupOrUndefines ==
    \/ pc = "backup" /\ pc' = "backup_write"
    \/ /\ Len(calls') = Len(calls) + 1
       /\ calls'[Len(calls')].op \in {"backup", "undefine"}

\* C17: across runs, interrupted or failed ones included, the backup is
\* written and undefine is issued only while the domain has a persistent
\* definition: a run after one that undefined the domain and did not
\* define it again neither overwrites the backup nor reaches undefine.
C17_UndefineOnlyWhenDefined ==
    [][WritesBackupOrUndefines => persistent.defined]_vars

(***************************************************************************)
(* C18  Done means migrated.                                               *)
(***************************************************************************)
\* C18: whenever a run has ended Done for a valid destination, every disk
\* of the domain is at that destination; a resumed run that ends Done
\* leaves no disk pending.
C18_DoneMeansAllMigrated ==
    (pc = "done" /\ ValidDestination) =>
        \A d \in Devices : DiskAtDestination(disks[d])

(***************************************************************************)
(* C19  No pivot without a job.                                            *)
(***************************************************************************)
\* The step issues a pivot request.
IssuesPivot ==
    /\ Len(calls') = Len(calls) + 1
    /\ calls'[Len(calls')].op = "pivot"

\* C19: a pivot request is issued only for a device that has a block copy
\* job at the time of the request: a device whose job vanished after the
\* launch is not taken for copied and pivoted.
C19_PivotOnlyWithJob ==
    [][IssuesPivot => HasJob(calls'[Len(calls')].dev)]_vars

(***************************************************************************)
(* copy-dual-sd.py.  A directory tree is a function from names to entries; *)
(* an entry is a file with its content or a directory with its tree.       *)
(***************************************************************************)
FileEntry(c) == [kind |-> "file", content |-> c, entries |-> EmptyDict]
DirEntry(t) == [kind |-> "dir", content |-> "", entries |-> t]

\* filecmp.dircmp(left, right): names on one side only, and the common
\* names that are files, or directories, on both sides.
left_only(left, right) == DOMAIN left \ DOMAIN right
right_only(left, right) == DOMAIN right \ DOMAIN left
common_files(left, right) ==
    {n \in DOMAIN left \cap DOMAIN right :
        left[n].kind = "file" /\ right[n].kind = "file"}
subdirs(left, right) ==
    {n \in DOMAIN left \cap DOMAIN right :
        left[n].kind = "dir" /\ right[n].kind = "dir"}

\* filecmp.cmp(a, b, shallow=False): the two files hold the same bytes.
cmp(a, b) == a.content = b.content

\* compare_dirs, lines 91-123.  Line 101 hands filecmp.cmp the path
\* {dcmp.left}/{file} twice.
RECURSIVE compare_dirs(_, _)
compare_dirs(left, right) ==
    /\ left_only(left, right) = {} /\ right_only(left, right) = {}
    /\ \A file \in common_files(left, right) : cmp(left[file], left[file])
    /\ \A sub \in subdirs(left, right) :
           compare_dirs(left[sub].entries, right[sub].entries)

\* The trees of the cards: two names, three contents (no bytes at all, and
\* two that differ), one level of subdirectories.
Names == {"x", "y"}
Empty == "empty"
Contents == {Empty, "c0", "c1"}
TreesOver(entries) ==
    UNION {[S -> entries] : S \in SUBSET Names}
LeafTrees == TreesOver({FileEntry(c) : c \in Contents})
CardTrees ==
    TreesOver({FileEntry(c) : c \in Contents} \cup {DirEntry(t) : t \in LeafTrees})

\* The kvm script does not run while copy-dual-sd.py does.
KvmIdle ==
    /\ args = [pool |-> None, filepath |-> None]
    /\ disks = EmptyDict
    /\ persistent = [defined |-> FALSE, disks |-> EmptyDict]
    /\ jobs = EmptyDict
    /\ backup = [written |-> FALSE, disks |-> EmptyDict]
    /\ run = 1
    /\ pc = "done"
    /\ InitLocals
    /\ inflightPrev = {}
kvm == <<world, run, pc, locals, inflightPrev>>

CompareInit ==
    /\ KvmIdle
    /\ srcPathOne \in CardTrees
    /\ srcPathTwo \in CardTrees
    /\ SdFresh("compare")

\* Lines 53-58: main compares the cards and aborts on a difference.
Main_CompareSources ==
    /\ mpc = "compare"
    /\ mpc' = IF compare_dirs(srcPathOne, srcPathTwo) THEN "spawn" ELSE "aborted"
    /\ UNCHANGED <<kvm, cards, destPath, FILE_QUEUE, PROGRESS_SEMAPHORE,
                   toWalk, totalCount, wpc, file_path, postcmp>>

CompareNext == Main_CompareSources

SpecCompare == CompareInit /\ [][CompareNext]_vars

(***************************************************************************)
(* C14  The cards are validated to be the same.                            *)
(***************************************************************************)
\* C14: compare_dirs returns False, and main aborts before copying,
\* whenever a file exists on one side only or a file common to both trees
\* differs in content; it returns True only if the trees are identical.
C14_SourcesValidated ==
    mpc # "compare" =>
        /\ mpc = "aborted" <=> srcPathOne # srcPathTwo
        /\ mpc = "spawn" <=> srcPathOne = srcPathTwo

(***************************************************************************)
(* copy-dual-sd.py, lines 60-88 and copy_worker: the main thread and the   *)
(* two workers, one step per access to what they share: the queue, the     *)
(* semaphore and the files of the working directory.                       *)
(***************************************************************************)
\* A relative path is the sequence of its names: <<n>> or <<dir, n>>.
IsFileAt(tree, p) ==
    /\ p[1] \in DOMAIN tree
    /\ IF Len(p) = 1 THEN tree[p[1]].kind = "file"
       ELSE /\ tree[p[1]].kind = "dir"
            /\ p[2] \in DOMAIN tree[p[1]].entries
            /\ tree[p[1]].entries[p[2]].kind = "file"
EntryAt(tree, p) == IF Len(p) = 1 THEN tree[p[1]] ELSE tree[p[1]].entries[p[2]]
IsDirAt(tree, n) == n \in DOMAIN tree /\ tree[n].kind = "dir"
FilePaths(tree) ==
    {<<n>> : n \in {m \in DOMAIN tree : tree[m].kind = "file"}}
    \cup UNION {{<<d, n>> : n \in DOMAIN tree[d].entries} :
                  d \in {m \in DOMAIN tree : tree[m].kind = "dir"}}

\* The tree with entry e at name n, and with e at path p.
WithEntry(tree, n, e) ==
    [m \in DOMAIN tree \cup {n} |-> IF m = n THEN e ELSE tree[m]]
WithFile(tree, p, e) ==
    IF Len(p) = 1 THEN WithEntry(tree, p[1], e)
    ELSE WithEntry(tree, p[1], DirEntry(WithEntry(tree[p[1]].entries, p[2], e)))

\* The cards of a copy: card one's files are empty or hold c0, card two's
\* hold any content; sub directories hold at most the file x.  main reaches line 60 with every
\* pair that compare_dirs lets through.
SubNames == {"x"}
TreesWith(names, entries) == UNION {[S -> entries] : S \in SUBSET names}
CopyCardsOne ==
    TreesWith(Names, {FileEntry(Empty), FileEntry("c0")}
                     \cup {DirEntry(t) :
                              t \in TreesWith(SubNames, {FileEntry(Empty), FileEntry("c0")})})
CopyCardsTwo ==
    TreesWith(Names, {FileEntry(c) : c \in Contents}
                     \cup {DirEntry(t) :
                              t \in TreesWith(SubNames, {FileEntry(c) : c \in Contents})})

\* os.walk and os.scandir yield the names of a directory in the order of
\* the file system: any order.
Perms(S) ==
    {f \in [1..Cardinality(S) -> S] : \A a, b \in DOMAIN f : f[a] = f[b] => a = b}
PutItem(p) == [op |-> "put", path |-> p]
MkdirItem(d) == [op |-> "mkdir", path |-> <<d>>]
RECURSIVE SubWalks(_, _)
SubWalks(tree, dirs) ==
    IF dirs = <<>> THEN {<<>>}
    ELSE LET d == Head(dirs)
         IN  {<<MkdirItem(d)>> \o [k \in DOMAIN fp |-> PutItem(<<d, fp[k]>>)] \o rest :
                 fp \in Perms(DOMAIN tree[d].entries),
                 rest \in SubWalks(tree, Tail(dirs))}
\* Lines 68-75 top down: the files of the root, then each sub directory.
Walks(tree) ==
    LET files == {n \in DOMAIN tree : tree[n].kind = "file"}
        dirs == {n \in DOMAIN tree : tree[n].kind = "dir"}
    IN  UNION {{[k \in DOMAIN fp |-> PutItem(<<fp[k]>>)] \o sub : sub \in SubWalks(tree, dp)} :
                  fp \in Perms(files), dp \in Perms(dirs)}

\* dircmp sorts its listings.
SortedNames == <<"x", "y">>
Sorted(S) == SelectSeq(SortedNames, LAMBDA n : n \in S)

\* The destination file while shutil.copy2 is writing it: a file of no
\* bytes is whole as soon as it is created.
Partial == FileEntry("partial")
Created(src) == IF src.content = Empty THEN src ELSE Partial

\* The card a worker copies from (the argument srcPathRoot).
srcPathRoot(w) == IF w = "one" THEN srcPathOne ELSE srcPathTwo

CopyInit ==
    /\ KvmIdle
    /\ srcPathOne \in CopyCardsOne
    /\ srcPathTwo \in CopyCardsTwo
    /\ compare_dirs(srcPathOne, srcPathTwo)
    /\ SdFresh("spawn")

\* Lines 60-68: the workers are started and the walk begins.
Main_Spawn ==
    /\ mpc = "spawn"
    /\ wpc' = [w \in Workers |-> "get"]
    /\ toWalk' \in Walks(srcPathOne)
    /\ totalCount' = 0
    /\ mpc' = "walk"
    /\ UNCHANGED <<kvm, cards, destPath, FILE_QUEUE, PROGRESS_SEMAPHORE, file_path,
                   postcmp>>

\* Lines 69-71: the sub directory is made in the working directory.
Main_Mkdir ==
    /\ mpc = "walk" /\ toWalk # <<>> /\ Head(toWalk).op = "mkdir"
    /\ LET d == Head(toWalk).path[1]
       IN  destPath' = IF d \in DOMAIN destPath THEN destPath
                       ELSE WithEntry(destPath, d, DirEntry(EmptyDict))
    /\ toWalk' = Tail(toWalk)
    /\ UNCHANGED <<kvm, cards, FILE_QUEUE, PROGRESS_SEMAPHORE, totalCount, mpc, wpc,
                   file_path, postcmp>>

\* Lines 72-75: one file is put on the queue.
Main_Put ==
    /\ mpc = "walk" /\ toWalk # <<>> /\ Head(toWalk).op = "put"
    /\ FILE_QUEUE' = Append(FILE_QUEUE, Head(toWalk).path)
    /\ toWalk' = Tail(toWalk)
    /\ totalCount' = totalCount + 1
    /\ UNCHANGED <<kvm, cards, destPath, PROGRESS_SEMAPHORE, mpc, wpc, file_path,
                   postcmp>>

\* Line 68: the walk is exhausted.
Main_WalkEnd ==
    /\ mpc = "walk" /\ toWalk = <<>>
    /\ mpc' = "check"
    /\ UNCHANGED <<kvm, cards, destPath, FILE_QUEUE, PROGRESS_SEMAPHORE, toWalk,
                   totalCount, wpc, file_path, postcmp>>

\* Line 78: the condition of the progress loop.
Main_Check ==
    /\ mpc = "check"
    /\ mpc' = IF Len(FILE_QUEUE) # 0 THEN "acquire" ELSE "postcompare"
    /\ UNCHANGED <<kvm, cards, destPath, FILE_QUEUE, PROGRESS_SEMAPHORE, toWalk,
                   totalCount, wpc, file_path, postcmp>>

\* Lines 79-82: acquire blocks while the counter is 0.
Main_Acquire ==
    /\ mpc = "acquire"
    /\ PROGRESS_SEMAPHORE > 0
    /\ PROGRESS_SEMAPHORE' = PROGRESS_SEMAPHORE - 1
    /\ mpc' = "check"
    /\ UNCHANGED <<kvm, cards, destPath, FILE_QUEUE, toWalk, totalCount, wpc,
                   file_path, postcmp>>

\* Lines 86-96 of the comparison of the copies: dircmp lists the working
\* directory and the first card.
Main_PostList ==
    /\ mpc = "postcompare"
    /\ copiesIdentical' =
           IF left_only(destPath, srcPathOne) = {} /\ right_only(destPath, srcPathOne) = {}
           THEN "yes" ELSE "no"
    /\ toCompare' = LET names == Sorted(common_files(destPath, srcPathOne))
                    IN  [k \in DOMAIN names |-> <<names[k]>>]
    /\ toDescend' = Sorted(subdirs(destPath, srcPathOne))
    /\ mpc' = "cmp"
    /\ UNCHANGED <<kvm, cards, destPath, FILE_QUEUE, PROGRESS_SEMAPHORE, toWalk,
                   totalCount, wpc, file_path, cmpStat>>

\* Line 101: filecmp.cmp takes its first os.stat of the file.
Main_CmpStat ==
    /\ mpc = "cmp" /\ toCompare # <<>>
    /\ cmpStat' = EntryAt(destPath, Head(toCompare)).content
    /\ mpc' = "cmp2"
    /\ UNCHANGED <<kvm, cards, destPath, FILE_QUEUE, PROGRESS_SEMAPHORE, toWalk,
                   totalCount, wpc, file_path, copiesIdentical, toCompare, toDescend>>

\* Lines 101-103: filecmp.cmp takes its second os.stat, of the same path,
\* and reads the file twice.  It is False when the file has changed since
\* the first os.stat, either way while a worker is writing the file, and
\* True for a file at rest.
Main_CmpRead ==
    /\ mpc = "cmp2"
    /\ LET p == Head(toCompare)
           writing == \E w \in Workers : wpc[w] = "copying" /\ file_path[w] = p
       IN  \E same \in BOOLEAN :
               /\ EntryAt(destPath, p).content # cmpStat => ~same
               /\ ~writing => (same <=> EntryAt(destPath, p).content = cmpStat)
               /\ copiesIdentical' = IF same THEN copiesIdentical ELSE "no"
    /\ toCompare' = Tail(toCompare)
    /\ cmpStat' = ""
    /\ mpc' = "cmp"
    /\ UNCHANGED <<kvm, cards, destPath, FILE_QUEUE, PROGRESS_SEMAPHORE, toWalk,
                   totalCount, wpc, file_path, toDescend>>

\* Lines 120-121 and 92-96 of the call they make: the next common sub
\* directory is listed, unless `identical' is False already.
Main_Descend ==
    /\ mpc = "cmp" /\ toCompare = <<>> /\ toDescend # <<>>
    /\ copiesIdentical = "yes"
    /\ LET d == Head(toDescend)
           left == destPath[d].entries
           right == srcPathOne[d].entries
           names == Sorted(common_files(left, right))
       IN  /\ copiesIdentical' =
                  IF left_only(left, right) = {} /\ right_only(left, right) = {}
                  THEN "yes" ELSE "no"
           /\ toCompare' = [k \in DOMAIN names |-> <<d, names[k]>>]
    /\ toDescend' = Tail(toDescend)
    /\ UNCHANGED <<kvm, cards, destPath, FILE_QUEUE, PROGRESS_SEMAPHORE, toWalk,
                   totalCount, mpc, wpc, file_path, cmpStat>>

\* Line 123: compare_dirs returns to main.
Main_PostDone ==
    /\ mpc = "cmp" /\ toCompare = <<>>
    /\ toDescend = <<>> \/ copiesIdentical = "no"
    /\ toDescend' = <<>>
    /\ mpc' = "exit"
    /\ UNCHANGED <<kvm, cards, destPath, FILE_QUEUE, PROGRESS_SEMAPHORE, toWalk,
                   totalCount, wpc, file_path, copiesIdentical, toCompare, cmpStat>>

\* main returns: the interpreter exits and the daemon threads end with it.
Main_Exit ==
    /\ mpc = "exit"
    /\ mpc' = "exited"
    /\ wpc' = [w \in Workers |-> "killed"]
    /\ UNCHANGED <<kvm, cards, destPath, FILE_QUEUE, PROGRESS_SEMAPHORE, toWalk,
                   totalCount, file_path, postcmp>>

\* Line 129: get blocks while the queue is empty.
Worker_Get(w) ==
    /\ wpc[w] = "get"
    /\ FILE_QUEUE # <<>>
    /\ file_path' = [file_path EXCEPT ![w] = Head(FILE_QUEUE)]
    /\ FILE_QUEUE' = Tail(FILE_QUEUE)
    /\ wpc' = [wpc EXCEPT ![w] = "copy"]
    /\ UNCHANGED <<kvm, cards, destPath, PROGRESS_SEMAPHORE, toWalk, totalCount, mpc,
                   postcmp>>

\* copy2 can open the worker's source, a file, and its destination, in a
\* directory that exists.
CanCopy(w) ==
    /\ IsFileAt(srcPathRoot(w), file_path[w])
    /\ Len(file_path[w]) = 1 \/ IsDirAt(destPath, file_path[w][1])

\* Line 132: copy2 creates the destination file and starts writing.
Worker_CopyStart(w) ==
    /\ wpc[w] = "copy"
    /\ CanCopy(w)
    /\ destPath' = WithFile(destPath, file_path[w],
                            Created(EntryAt(srcPathRoot(w), file_path[w])))
    /\ wpc' = [wpc EXCEPT ![w] = "copying"]
    /\ UNCHANGED <<kvm, cards, FILE_QUEUE, PROGRESS_SEMAPHORE, toWalk, totalCount,
                   mpc, file_path, postcmp>>

\* Line 132: copy2 has written the whole file.
Worker_CopyEnd(w) ==
    /\ wpc[w] = "copying"
    /\ destPath' = WithFile(destPath, file_path[w],
                            EntryAt(srcPathRoot(w), file_path[w]))
    /\ wpc' = [wpc EXCEPT ![w] = "release"]
    /\ UNCHANGED <<kvm, cards, FILE_QUEUE, PROGRESS_SEMAPHORE, toWalk, totalCount,
                   mpc, file_path, postcmp>>

\* Lines 133-134: task_done and release.
Worker_Release(w) ==
    /\ wpc[w] = "release"
    /\ PROGRESS_SEMAPHORE' = PROGRESS_SEMAPHORE + 1
    /\ file_path' = [file_path EXCEPT ![w] = <<>>]
    /\ wpc' = [wpc EXCEPT ![w] = "get"]
    /\ UNCHANGED <<kvm, cards, destPath, FILE_QUEUE, toWalk, totalCount, mpc,
                   postcmp>>

\* Lines 135-136: copy2 raises (it cannot open a file, or an I/O error
\* while it writes); the worker prints the exception and ends.
Worker_CopyFails(w) ==
    /\ wpc[w] \in {"copy", "copying"}
    /\ wpc' = [wpc EXCEPT ![w] = "dead"]
    /\ UNCHANGED <<kvm, cards, destPath, FILE_QUEUE, PROGRESS_SEMAPHORE, toWalk,
                   totalCount, mpc, file_path, postcmp>>

CopyNext ==
    \/ Main_Spawn
    \/ Main_Mkdir
    \/ Main_Put
    \/ Main_WalkEnd
    \/ Main_Check
    \/ Main_Acquire
    \/ Main_PostList
    \/ Main_CmpStat
    \/ Main_CmpRead
    \/ Main_Descend
    \/ Main_PostDone
    \/ Main_Exit
    \/ \E w \in Workers : Worker_Get(w)
    \/ \E w \in Workers : Worker_CopyStart(w)
    \/ \E w \in Workers : Worker_CopyEnd(w)
    \/ \E w \in Workers : Worker_Release(w)
    \/ \E w \in Workers : Worker_CopyFails(w)

SpecCopy == CopyInit /\ [][CopyNext]_vars

(***************************************************************************)
(* C20  The progress loop and the copies.                                  *)
(***************************************************************************)
\* Every file of the first card is in the destination, completely written.
AllCopied ==
    \A p \in FilePaths(srcPathOne) :
        IsFileAt(destPath, p) /\ EntryAt(destPath, p).content \in Contents

\* main has left the progress loop.
LoopLeft == mpc \in {"postcompare", "cmp", "cmp2", "exit", "exited"}

\* C20: when main has left the progress loop (it compares, and later
\* exits), every file that was put on FILE_QUEUE is completely copied and
\* no worker holds a file it has not finished.
C20_CopiesCompleteAfterLoop ==
    LoopLeft =>
        /\ AllCopied
        /\ \A w \in Workers : file_path[w] = <<>>

\* With every file copied and both workers waiting for work, main is not
\* blocked in acquire.
C20_LoopNotBlocked ==
    (AllCopied /\ \A w \in Workers : wpc[w] = "get") =>
        ~(mpc = "acquire" /\ PROGRESS_SEMAPHORE = 0)

====
